---- MODULE Spec2Model ----
(***************************************************************************)
(* Model of the shift scheduling engine: models.py (StoreHours, Employee,  *)
(* Shift, Schedule) and scheduler.py (ShiftScheduler).                     *)
(*                                                                         *)
(* Units.  A time of day is a number of minutes 0..1439 (datetime.time).   *)
(* The code's float hours are kept as whole minutes: every input below is  *)
(* on a 30-minute grid and the only division (total_hours / num_people,    *)
(* by 2 or 3) is applied to whole hours, so no value is rounded.           *)
(* A datetime is <<day of month, minute of day>>; a datetime.date is       *)
(* <<day of month>>: as in Python, a date never equals a datetime.         *)
(* Within one call of _generate_shifts_for_day a datetime on the date or   *)
(* the day after is the number of minutes since the date's midnight.       *)
(***************************************************************************)
EXTENDS Integers, Sequences, FiniteSets, TLC

\* Number of dates _get_dates_in_month returns (28..31 in the code).
DaysInMonth == 3

H(n) == n * 60
DayMinutes == 24 * 60

None == <<>>
EmptyDict == [k \in {} |-> None]

Min2(a, b) == IF a <= b THEN a ELSE b
Max2(a, b) == IF a >= b THEN a ELSE b

\* datetime.time() of a datetime counted in minutes from the date's midnight
TimeOf(dt) == dt % DayMinutes

\* datetime(date.year, date.month, date.day)
normalize_date(date) == <<date[1], 0>>

\* date.date(): a datetime.date object
date_part(date) == <<date[1]>>

(***************************************************************************)
(* models.py: StoreHours                                                   *)
(***************************************************************************)
\* dict[key] = value
dict_set(dict, key, value) ==
    [k \in DOMAIN dict \cup {key} |-> IF k = key THEN value ELSE dict[k]]

set_hours(sh, day, open_time, close_time) ==
    [sh EXCEPT !.hours = dict_set(sh.hours, day, <<open_time, close_time>>)]

\* set_hours_for_date storing the override under the datetime as it was given
set_hours_for_date_raw_key(sh, date, open_time, close_time) ==
    [sh EXCEPT !.date_overrides = dict_set(sh.date_overrides, date, <<open_time, close_time>>)]

set_hours_for_date(sh, date, open_time, close_time) ==
    [sh EXCEPT !.date_overrides =
        dict_set(sh.date_overrides, normalize_date(date), <<open_time, close_time>>)]

set_closed_for_date(sh, date) ==
    [sh EXCEPT !.date_overrides = dict_set(sh.date_overrides, normalize_date(date), None)]

remove_date_override(sh, date) ==
    LET date_only == normalize_date(date)
    IN  IF date_only \in DOMAIN sh.date_overrides
        THEN [sh EXCEPT !.date_overrides =
                 [k \in DOMAIN sh.date_overrides \ {date_only} |-> sh.date_overrides[k]]]
        ELSE sh

\* "if date:" is false for None only: a datetime is always true
get_hours(sh, day, date) ==
    IF date # None /\ normalize_date(date) \in DOMAIN sh.date_overrides
    THEN sh.date_overrides[normalize_date(date)]
    ELSE IF day \in DOMAIN sh.hours THEN sh.hours[day] ELSE None

\* is_open answering from the weekday's hours only
is_open_weekday_only(sh, day, date) == day \in DOMAIN sh.hours

is_open(sh, day, date) ==
    IF date # None /\ normalize_date(date) \in DOMAIN sh.date_overrides
    THEN sh.date_overrides[normalize_date(date)] # None
    ELSE day \in DOMAIN sh.hours

(***************************************************************************)
(* models.py: Employee                                                     *)
(***************************************************************************)
can_work(emp, day) == day \notin emp.unavailable_days

\* times_overlap that only asks whether the first range starts inside the second
times_overlap_start_only(start1, end1, start2, end2) ==
    LET e2 == IF end2 < start2 THEN end2 + DayMinutes ELSE end2
    IN  start1 >= start2 /\ start1 < e2

times_overlap(start1, end1, start2, end2) ==
    LET e1 == IF end1 < start1 THEN end1 + DayMinutes ELSE end1
        e2 == IF end2 < start2 THEN end2 + DayMinutes ELSE end2
    IN  start1 < e2 /\ e1 > start2

is_within_range(start, end, range_start, range_end) ==
    LET e  == IF end < start THEN end + DayMinutes ELSE end
        re == IF range_end < range_start THEN range_end + DayMinutes ELSE range_end
    IN  start >= range_start /\ e <= re

\* available_by_weekday answering from the first rule that the weekday has
available_by_weekday_first_match(emp, day, start_time, end_time) ==
    IF day \in emp.unavailable_days /\ day \notin DOMAIN emp.unavailable_times_by_day
    THEN FALSE
    ELSE IF day \in DOMAIN emp.unavailable_times_by_day
    THEN ~times_overlap(start_time, end_time,
                        emp.unavailable_times_by_day[day][1],
                        emp.unavailable_times_by_day[day][2])
    ELSE IF day \in DOMAIN emp.available_times_by_day
    THEN is_within_range(start_time, end_time,
                         emp.available_times_by_day[day][1],
                         emp.available_times_by_day[day][2])
    ELSE TRUE

\* The weekday rules of is_available_at_time (models.py 169-192)
available_by_weekday(emp, day, start_time, end_time) ==
    IF day \in emp.unavailable_days /\ day \notin DOMAIN emp.unavailable_times_by_day
    THEN FALSE
    ELSE IF day \in DOMAIN emp.unavailable_times_by_day
            /\ times_overlap(start_time, end_time,
                             emp.unavailable_times_by_day[day][1],
                             emp.unavailable_times_by_day[day][2])
    THEN FALSE
    ELSE IF day \in DOMAIN emp.available_times_by_day
    THEN is_within_range(start_time, end_time,
                         emp.available_times_by_day[day][1],
                         emp.available_times_by_day[day][2])
    ELSE TRUE

\* is_available_at_time going to the weekday rules whatever the date
is_available_ignoring_date(emp, day, start_time, end_time, date) ==
    available_by_weekday(emp, day, start_time, end_time)

is_available_at_time(emp, day, start_time, end_time, date) ==
    IF date = None
    THEN available_by_weekday(emp, day, start_time, end_time)
    ELSE
    LET date_only == normalize_date(date)
    IN  IF date_only \in emp.unavailable_dates
        THEN IF date_only \in DOMAIN emp.unavailable_times_by_date
             THEN ~times_overlap(start_time, end_time,
                                 emp.unavailable_times_by_date[date_only][1],
                                 emp.unavailable_times_by_date[date_only][2])
             ELSE FALSE
        ELSE IF date_only \in DOMAIN emp.available_times_by_date
        THEN is_within_range(start_time, end_time,
                             emp.available_times_by_date[date_only][1],
                             emp.available_times_by_date[date_only][2])
        ELSE available_by_weekday(emp, day, start_time, end_time)

\* prefers_day looking the date up as it was given
prefers_day_raw_date(emp, day, date) ==
    \/ date # None /\ date \in emp.preferred_dates
    \/ date # None /\ date \in DOMAIN emp.preferred_times_by_date
    \/ day \in emp.preferred_days

prefers_day(emp, day, date) ==
    \/ date # None /\ normalize_date(date) \in emp.preferred_dates
    \/ date # None /\ normalize_date(date) \in DOMAIN emp.preferred_times_by_date
    \/ day \in emp.preferred_days

(***************************************************************************)
(* models.py: Shift, Schedule                                              *)
(***************************************************************************)
\* Shift.duration_hours reads datetime.today() once for the start and once for the
\* end (models.py 224-225): today_start and today_end are the two dates read, as
\* day numbers; the second is the first or, when midnight falls between the two
\* reads, the day after
duration_hours(shift, today_start, today_end) ==
    LET start == today_start * DayMinutes + shift.start_time
        end == today_end * DayMinutes + shift.end_time
    IN  IF end < start THEN end + DayMinutes - start ELSE end - start

\* the duration when both reads give the same date
Duration(shift) == duration_hours(shift, 0, 0)

RECURSIVE SumDurations(_)
SumDurations(ss) ==
    IF ss = <<>> THEN 0 ELSE Duration(Head(ss)) + SumDurations(Tail(ss))

get_shifts_for_employee(shifts, employee_name) ==
    SelectSeq(shifts, LAMBDA s : s.employee_name = employee_name)

get_total_hours_for_employee(shifts, employee_name) ==
    SumDurations(get_shifts_for_employee(shifts, employee_name))

(***************************************************************************)
(* scheduler.py: ShiftScheduler                                            *)
(***************************************************************************)
VARIABLES
    employees,        \* self.employees: the roster, in order
    store_hours,      \* self.store_hours: [hours, date_overrides]
    first_weekday,    \* weekday of the first date of (year, month)
    pc,               \* position in generate_schedule
    calls,            \* number of generate_schedule calls that have returned
    returned,         \* the shifts of each returned Schedule, in call order
    schedule,         \* schedule.shifts of the call in progress
    employee_hours,   \* employee_hours: name -> accumulated minutes
    date_idx,         \* index into dates (the loop of lines 38-57)
    shifts,           \* _generate_shifts_for_day: shifts
    open_dt,
    close_dt,
    current_dt,
    iteration,
    last_current_dt,
    today,            \* the wall clock's date: 0 at construction, 1 the day after
    call,             \* the last call a client made of a method of models.py
    ledger            \* what the callers of StoreHours have asked for, by calendar day

vars == <<employees, store_hours, first_weekday, pc, calls, returned, schedule,
          employee_hours, date_idx, shifts, open_dt, close_dt, current_dt,
          iteration, last_current_dt, today, call, ledger>>

inputs == <<employees, store_hours, first_weekday>>
models_vars == <<call, ledger>>
day_locals == <<shifts, open_dt, close_dt, current_dt, iteration, last_current_dt>>

max_iterations == 1000
max_shift_hours == H(8)
\* a cursor step of no minutes
ZeroStep == 15 - 15
QuarterHour == 15
NoShift == 0 - 1

\* dates[date_idx] and DayOfWeek(date.weekday())
DateAt(i) == <<i, 0>>
WeekdayAt(fw, i) == (fw + i - 1) % 7

date == DateAt(date_idx)
day == WeekdayAt(first_weekday, date_idx)

\* available_filter that does not ask whether the employee can work the weekday
available_filter_any_weekday(emps, d, hours) ==
    SelectSeq(emps, LAMBDA e : hours[e.name] < e.max_hours_per_month)

\* available_filter that lets in an employee whose hours have reached the cap
available_filter_up_to_cap(emps, d, hours) ==
    SelectSeq(emps, LAMBDA e : can_work(e, d) /\ hours[e.name] <= e.max_hours_per_month)

\* lines 99-103 and 142-146: employees who can work the weekday and are below the cap
available_filter(emps, d, hours) ==
    SelectSeq(emps, LAMBDA e : can_work(e, d) /\ hours[e.name] < e.max_hours_per_month)

\* key_less comparing the accumulated hours themselves, not their share of the cap
key_less_absolute_hours(e1, e2, d, dt, hours) ==
    LET n1 == ~prefers_day(e1, d, dt)
        n2 == ~prefers_day(e2, d, dt)
    IN  \/ (~n1 /\ n2)
        \/ (n1 = n2 /\ hours[e1.name] < hours[e2.name])

\* the sort key (not prefers_day, employee_hours / max_hours_per_month), compared
\* as Python compares tuples; the quotients are compared by cross-multiplication
key_less(e1, e2, d, dt, hours) ==
    LET n1 == ~prefers_day(e1, d, dt)
        n2 == ~prefers_day(e2, d, dt)
    IN  \/ (~n1 /\ n2)
        \/ (n1 = n2 /\ hours[e1.name] * e2.max_hours_per_month
                        < hours[e2.name] * e1.max_hours_per_month)

\* lines 114 and 156: the quotient employee_hours / max_hours_per_month has a value
\* for every employee of the list; with a cap of 0 the division raises
utilization_defined(avail) ==
    \A i \in 1..Len(avail) : avail[i].max_hours_per_month # 0

\* list.sort(key=...): stable
sort_available(avail, d, dt, hours) ==
    LET n == Len(avail)
        rank(i) == Cardinality({j \in 1..n :
                      \/ key_less(avail[j], avail[i], d, dt, hours)
                      \/ (~key_less(avail[i], avail[j], d, dt, hours) /\ j < i)})
    IN  [r \in 1..n |-> avail[CHOOSE i \in 1..n : rank(i) = r - 1]]

available_employees(emps, d, dt, hours) ==
    sort_available(available_filter(emps, d, hours), d, dt, hours)

\* the roster after a sort that worked on self.employees itself
roster_sorted_in_place(emps, d, dt, hours) ==
    sort_available(emps, d, dt, hours)

\* self.employees after lines 99-116 and 142-158: the list comprehension builds a
\* new list, and it is this list that sort() reorders
roster_after_sort(emps, d, dt, hours) == emps

\* lines 120-128
target_shift_duration(total_hours) ==
    IF total_hours <= H(6)
    THEN total_hours
    ELSE LET num_people == Max2(2, (total_hours \div max_shift_hours)
                                   + (IF total_hours % max_shift_hours > 0 THEN 1 ELSE 0))
         IN  total_hours \div num_people

\* sorted(set(...), reverse=True)
RECURSIVE sorted_desc(_)
sorted_desc(S) ==
    IF S = {} THEN <<>>
    ELSE LET m == CHOOSE x \in S : \A y \in S : y <= x
         IN  <<m>> \o sorted_desc(S \ {m})

\* lines 182-186
potential_durations(shift_duration, remaining_hours, remaining_time) ==
    sorted_desc({ Min2(shift_duration, Min2(remaining_hours, remaining_time)),
                  Min2(remaining_hours, remaining_time),
                  remaining_time })

\* try_duration without the one-hour floor of line 198
try_duration_any_length(emp, d, dt, actual_shift_duration, remaining_time, nshifts, cur, close) ==
    LET allow_short_shift ==
            nshifts = 0 /\ (\/ actual_shift_duration * 5 >= remaining_time * 4
                            \/ remaining_time < emp.min_hours_per_shift)
        end0 == cur + actual_shift_duration
        end_dt == IF end0 > close THEN close ELSE end0
    IN  IF actual_shift_duration < emp.min_hours_per_shift /\ ~allow_short_shift
        THEN NoShift
        ELSE IF end0 > close /\ (close - cur) < emp.min_hours_per_shift
        THEN NoShift
        ELSE IF is_available_at_time(emp, d, TimeOf(cur), TimeOf(end_dt), dt)
        THEN end_dt
        ELSE NoShift

\* try_duration without the availability test of line 208
try_duration_unchecked(emp, d, dt, actual_shift_duration, remaining_time, nshifts, cur, close) ==
    LET allow_short_shift ==
            nshifts = 0 /\ (\/ actual_shift_duration * 5 >= remaining_time * 4
                            \/ remaining_time < emp.min_hours_per_shift)
        end0 == cur + actual_shift_duration
        end_dt == IF end0 > close THEN close ELSE end0
    IN  IF actual_shift_duration < emp.min_hours_per_shift /\ ~allow_short_shift
        THEN NoShift
        ELSE IF allow_short_shift /\ actual_shift_duration < H(1)
        THEN NoShift
        ELSE IF end0 > close /\ (close - cur) < emp.min_hours_per_shift
        THEN NoShift
        ELSE end_dt

\* lines 189-208 for one candidate duration: the end of the shift, or NoShift
try_duration(emp, d, dt, actual_shift_duration, remaining_time, nshifts, cur, close) ==
    LET allow_short_shift ==
            nshifts = 0 /\ (\/ actual_shift_duration * 5 >= remaining_time * 4
                            \/ remaining_time < emp.min_hours_per_shift)
        end0 == cur + actual_shift_duration
        end_dt == IF end0 > close THEN close ELSE end0
    IN  IF actual_shift_duration < emp.min_hours_per_shift /\ ~allow_short_shift
        THEN NoShift
        ELSE IF allow_short_shift /\ actual_shift_duration < H(1)
        THEN NoShift
        ELSE IF end0 > close /\ (close - cur) < emp.min_hours_per_shift
        THEN NoShift
        ELSE IF is_available_at_time(emp, d, TimeOf(cur), TimeOf(end_dt), dt)
        THEN end_dt
        ELSE NoShift

\* the for loop of line 188: the first candidate duration that gives a shift
RECURSIVE try_durations(_, _, _, _, _, _, _, _)
try_durations(emp, d, dt, durs, remaining_time, nshifts, cur, close) ==
    IF durs = <<>> THEN NoShift
    ELSE LET r == try_duration(emp, d, dt, Head(durs), remaining_time, nshifts, cur, close)
         IN  IF r # NoShift THEN r
             ELSE try_durations(emp, d, dt, Tail(durs), remaining_time, nshifts, cur, close)

\* lines 176-186 for the employee at position k of the sorted list
try_employee(emp, d, dt, hours, shift_duration, remaining_time, nshifts, cur, close) ==
    try_durations(emp, d, dt,
                  potential_durations(shift_duration,
                                      emp.max_hours_per_month - hours[emp.name],
                                      remaining_time),
                  remaining_time, nshifts, cur, close)

\* employee_index is set to 0 at line 161 in every iteration of the outer loop, so
\* attempt number a (from 0) looks at available_employees[a % len]
employee_at(avail, attempts) == avail[((0 + attempts) % Len(avail)) + 1]

\* the while loop of lines 175-227: <<employee, end_dt>> of the shift created, or None
RECURSIVE find_shift(_, _, _, _, _, _, _, _, _, _)
find_shift(avail, attempts, d, dt, hours, shift_duration, remaining_time, nshifts, cur, close) ==
    IF attempts >= Len(avail) THEN None
    ELSE LET emp == employee_at(avail, attempts)
             r == try_employee(emp, d, dt, hours, shift_duration, remaining_time,
                               nshifts, cur, close)
         IN  IF r # NoShift THEN <<emp, r>>
             ELSE find_shift(avail, attempts + 1, d, dt, hours, shift_duration,
                             remaining_time, nshifts, cur, close)

\* lines 232-248: the minimal-duration pass, tried only while the day has no shift
RECURSIVE find_minimal_shift(_, _, _, _, _, _, _)
find_minimal_shift(avail, k, d, dt, remaining_time, cur, close) ==
    IF k > Len(avail) THEN None
    ELSE LET emp == avail[k]
             end_dt == Min2(cur + emp.min_hours_per_shift, close)
         IN  IF /\ remaining_time >= emp.min_hours_per_shift
                /\ is_available_at_time(emp, d, TimeOf(cur), TimeOf(end_dt), dt)
             THEN <<emp, end_dt>>
             ELSE find_minimal_shift(avail, k + 1, d, dt, remaining_time, cur, close)

\* lines 261-268.  date_only is date.date(), a datetime.date, while the employee's
\* collections hold datetime values
available_fallback(emps, d, dt) ==
    LET date_only == date_part(dt)
    IN  SelectSeq(emps, LAMBDA e :
            /\ can_work(e, d)
            /\ d \notin e.unavailable_days
            /\ ~(/\ date_only \in e.unavailable_dates
                 /\ date_only \notin DOMAIN e.unavailable_times_by_date))

\* lines 274-276
fallback_duration(emp, hours, total_hours_available) ==
    LET remaining_hours == emp.max_hours_per_month - hours[emp.name]
        d1 == Min2(total_hours_available, Min2(Max2(remaining_hours, H(1)), H(8)))
    IN  IF total_hours_available >= H(1) THEN Max2(d1, H(1)) ELSE d1

\* fallback_end without regard to the day's window
fallback_end_unclipped(emp, hours, open, close) ==
    open + Min2(Max2(emp.max_hours_per_month - hours[emp.name], H(1)), H(8))

\* line 279: the end of the fallback shift
fallback_end(emp, hours, open, close) ==
    Min2(open + fallback_duration(emp, hours, close - open), close)

\* Shift(...): the five fields of the dataclass, and three history fields that no
\* action reads: the path that placed the shift, its start and end as minutes from
\* the date's midnight, and the employee's accumulated minutes after it
new_shift(emp, d, dt, start_dt, end_dt, start_time, via, hours, t1, t2) ==
    LET s == [employee_name |-> emp.name, day |-> d,
              start_time |-> start_time, end_time |-> TimeOf(end_dt), date |-> dt]
    IN  [employee_name |-> s.employee_name, day |-> s.day,
         start_time |-> s.start_time, end_time |-> s.end_time, date |-> s.date,
         h_via |-> via, h_start_dt |-> start_dt, h_end_dt |-> end_dt,
         h_hours_after |-> hours[emp.name] + duration_hours(s, t1, t2)]

\* employee_hours[emp.name] += shift.duration_hours()
add_hours(hours, shift, t1, t2) ==
    [hours EXCEPT ![shift.employee_name] = @ + duration_hours(shift, t1, t2)]

\* cursor_after_shift leaving the cursor where the shift started
cursor_after_shift_stays(cur, end_dt) == cur

\* line 220 and line 246: current_dt = end_dt
cursor_after_shift(cur, end_dt) == end_dt

(***************************************************************************)
(* The inputs: rosters, operating hours and the month                      *)
(***************************************************************************)
HM(h, m) == h * 60 + m

\* Employee(name): the dataclass defaults of models.py 96-112
Employee(name) ==
    [name |-> name,
     preferred_days |-> {},
     available_times_by_day |-> EmptyDict,
     unavailable_days |-> {},
     unavailable_times_by_day |-> EmptyDict,
     preferred_dates |-> {},
     preferred_times_by_date |-> EmptyDict,
     unavailable_dates |-> {},
     unavailable_times_by_date |-> EmptyDict,
     available_times_by_date |-> EmptyDict,
     max_hours_per_month |-> H(160),
     min_hours_per_shift |-> H(4),
     max_hours_per_shift |-> H(8)]

\* The weekday and the date that the rules of the rosters below are keyed by
RuleDay == 1
RuleDate == <<2, 0>>

Midday == <<HM(12, 0), HM(14, 0)>>
Morning == <<HM(8, 0), HM(13, 0)>>
Night == <<HM(22, 0), HM(2, 0)>>

\* weekday rules: the fields of an employee that are keyed by weekday
WeekdayRules ==
    { [unavailable_days |-> {}, unavailable_times_by_day |-> EmptyDict,
       available_times_by_day |-> EmptyDict],
      [unavailable_days |-> {RuleDay}, unavailable_times_by_day |-> EmptyDict,
       available_times_by_day |-> EmptyDict],
      [unavailable_days |-> {}, unavailable_times_by_day |-> (RuleDay :> Midday),
       available_times_by_day |-> EmptyDict],
      [unavailable_days |-> {}, unavailable_times_by_day |-> (RuleDay :> Night),
       available_times_by_day |-> EmptyDict],
      [unavailable_days |-> {}, unavailable_times_by_day |-> EmptyDict,
       available_times_by_day |-> (RuleDay :> Morning)] }

\* date rules: the fields of an employee that are keyed by date
DateRules ==
    { [unavailable_dates |-> {}, unavailable_times_by_date |-> EmptyDict,
       available_times_by_date |-> EmptyDict],
      [unavailable_dates |-> {RuleDate}, unavailable_times_by_date |-> EmptyDict,
       available_times_by_date |-> EmptyDict],
      [unavailable_dates |-> {RuleDate}, unavailable_times_by_date |-> (RuleDate :> Midday),
       available_times_by_date |-> EmptyDict],
      [unavailable_dates |-> {}, unavailable_times_by_date |-> (RuleDate :> Midday),
       available_times_by_date |-> EmptyDict],
      [unavailable_dates |-> {}, unavailable_times_by_date |-> EmptyDict,
       available_times_by_date |-> (RuleDate :> Morning)] }

Caps == {H(8), H(1000)}

with_rules(emp, w, r, cap) ==
    [emp EXCEPT !.unavailable_days = w.unavailable_days,
                !.unavailable_times_by_day = w.unavailable_times_by_day,
                !.available_times_by_day = w.available_times_by_day,
                !.unavailable_dates = r.unavailable_dates,
                !.unavailable_times_by_date = r.unavailable_times_by_date,
                !.available_times_by_date = r.available_times_by_date,
                !.max_hours_per_month = cap]

\* the first employee: any weekday rule with any date rule and either cap
FirstEmployees ==
    { with_rules(Employee("A"), w, r, cap) : w \in WeekdayRules, r \in DateRules, cap \in Caps }

\* the colleague: the defaults, a preference for the weekday, or a preference for
\* the date with a small cap
Colleagues ==
    { Employee("B"),
      [Employee("B") EXCEPT !.preferred_days = {RuleDay}],
      [Employee("B") EXCEPT !.preferred_dates = {RuleDate}, !.max_hours_per_month = H(8)] }

\* an employee loaded with min_hours_per_shift 0 (no loader checks the limits) and
\* an unavailable window on the weekday of the rules
ZeroMinimumEmployee ==
    [Employee("A") EXCEPT !.min_hours_per_shift = 0,
                          !.max_hours_per_month = H(1000),
                          !.unavailable_times_by_day = (RuleDay :> Midday)]

\* an employee with max_hours_per_month 0
ZeroCapEmployee == [Employee("A") EXCEPT !.max_hours_per_month = 0]

\* a colleague who can work every weekday and is free at no time of the weekday of
\* the rules
BusyColleague ==
    [Employee("B") EXCEPT !.available_times_by_day = (RuleDay :> <<HM(0, 0), HM(0, 0)>>)]

\* an employee who prefers the weekday of the rules and is unavailable on its night
PreferringEmployee ==
    [Employee("A") EXCEPT !.preferred_days = {RuleDay},
                          !.unavailable_times_by_day = (RuleDay :> Night),
                          !.max_hours_per_month = H(1000)]

\* an employee whose cap and whose min_hours_per_shift are both 0.1 hour
TinyEmployee ==
    [Employee("A") EXCEPT !.max_hours_per_month = 6, !.min_hours_per_shift = 6]

\* one employee, the employee followed by a colleague, or the default colleague first
Rosters ==
    { <<a>> : a \in FirstEmployees }
    \cup { <<a, b>> : a \in FirstEmployees, b \in Colleagues }
    \cup { <<Employee("B"), a>> : a \in FirstEmployees }
    \cup { <<ZeroMinimumEmployee>> }
    \cup { <<ZeroCapEmployee>>, <<ZeroCapEmployee, Employee("B")>>,
            <<ZeroCapEmployee, BusyColleague>> }
    \cup { <<PreferringEmployee, Employee("B")>> }
    \cup { <<TinyEmployee>> }

\* set_hours(day, open, close) for every weekday
Weekly(open, close) == [d \in 0..6 |-> <<open, close>>]

\* the operating hours: no hours at all; the same hours on every weekday (6 hours,
\* 10 hours, 10 hours across midnight); and for the date of the rules an override
\* that closes it or gives it 0, 1/2 or 17 hours; and no weekday hours with an
\* override that opens the date of the rules for 10 hours, 4 hours or 10 minutes
StoreHoursRecords ==
    { [hours |-> EmptyDict, date_overrides |-> EmptyDict],
      [hours |-> Weekly(HM(9, 0), HM(15, 0)), date_overrides |-> EmptyDict],
      [hours |-> Weekly(HM(8, 0), HM(18, 0)), date_overrides |-> EmptyDict],
      [hours |-> Weekly(HM(18, 0), HM(4, 0)), date_overrides |-> EmptyDict],
      [hours |-> Weekly(HM(9, 0), HM(15, 0)), date_overrides |-> (RuleDate :> None)],
      [hours |-> Weekly(HM(8, 0), HM(18, 0)), date_overrides |-> (RuleDate :> None)],
      [hours |-> Weekly(HM(9, 0), HM(15, 0)),
       date_overrides |-> (RuleDate :> <<HM(9, 0), HM(9, 0)>>)],
      [hours |-> Weekly(HM(9, 0), HM(15, 0)),
       date_overrides |-> (RuleDate :> <<HM(9, 0), HM(9, 30)>>)],
      [hours |-> Weekly(HM(9, 0), HM(15, 0)),
       date_overrides |-> (RuleDate :> <<HM(6, 0), HM(23, 0)>>)],
      [hours |-> EmptyDict, date_overrides |-> (RuleDate :> <<HM(8, 0), HM(18, 0)>>)],
      [hours |-> EmptyDict, date_overrides |-> (RuleDate :> <<HM(9, 0), HM(13, 0)>>)],
      [hours |-> EmptyDict, date_overrides |-> (RuleDate :> <<HM(9, 0), HM(9, 10)>>)] }

FirstWeekdays == {0, 6}

\* no call of a method of models.py yet
NoCall == [method |-> "none", args |-> <<>>, result |-> None]

\* the dates that clients pass: none, a date without rules, the date of the rules,
\* and the date of the rules with a time of day
QueryDates == {None, <<1, 0>>, RuleDate, <<RuleDate[1], HM(10, 0)>>}
QueryDays == {RuleDay, 2}

\* nothing asked of StoreHours yet: no weekday has hours, no calendar day an override
EmptyLedger ==
    [weekly |-> [d \in 0..6 |-> None],
     overridden |-> {},
     override |-> [n \in {dt[1] : dt \in QueryDates \ {None}} |-> None]]

Init ==
    /\ employees \in Rosters
    /\ store_hours \in StoreHoursRecords
    /\ first_weekday \in FirstWeekdays
    /\ pc = "ready"
    /\ calls = 0
    /\ returned = <<>>
    /\ schedule = <<>>
    /\ employee_hours = [n \in {employees[i].name : i \in 1..Len(employees)} |-> 0]
    /\ date_idx = 1
    /\ shifts = <<>>
    /\ open_dt = 0 /\ close_dt = 0 /\ current_dt = 0
    /\ iteration = 0
    /\ last_current_dt = NoShift
    /\ today = 0
    /\ call = NoCall
    /\ ledger = EmptyLedger

(***************************************************************************)
(* generate_schedule, one step per date and per iteration of the day loop  *)
(***************************************************************************)
remaining_time == close_dt - current_dt
total_hours == close_dt - open_dt
loop_available == available_employees(employees, day, date, employee_hours)
loop_running == current_dt < close_dt /\ iteration < max_iterations

\* min(emp.min_hours_per_shift for emp in available_employees)
min_shift_duration(avail) ==
    LET S == {avail[i].min_hours_per_shift : i \in 1..Len(avail)}
    IN  CHOOSE m \in S : \A x \in S : m <= x

\* too_short that no longer stops the day once a shift has been placed
too_short_before_first(avail) ==
    /\ remaining_time < min_shift_duration(avail)
    /\ remaining_time < QuarterHour

\* lines 167-169
too_short(avail) ==
    /\ remaining_time < min_shift_duration(avail)
    /\ (Len(shifts) > 0 \/ remaining_time < QuarterHour)

\* found_shift with the walk starting at the second position of the list
found_shift_from_second ==
    find_shift(loop_available, 1, day, date, employee_hours,
               target_shift_duration(total_hours), remaining_time,
               Len(shifts), current_dt, close_dt)

\* lines 172-227: the search from attempts = 0
found_shift ==
    find_shift(loop_available, 0, day, date, employee_hours,
               target_shift_duration(total_hours), remaining_time,
               Len(shifts), current_dt, close_dt)

found_minimal_shift ==
    IF Len(shifts) = 0
    THEN find_minimal_shift(loop_available, 1, day, date, remaining_time,
                            current_dt, close_dt)
    ELSE None

\* the body reaches line 171: the loop did not break at 150 or 169
iteration_tries ==
    /\ pc = "loop"
    /\ loop_running
    /\ loop_available # <<>>
    /\ ~too_short(loop_available)

\* day_hours looking up the weekday's hours only, without the date's override
day_hours_weekday_only(sh, d, dt) ==
    IF d \in DOMAIN sh.hours THEN sh.hours[d] ELSE None

\* lines 42-48: the date's window as generate_schedule resolves it; None: skip the date
day_hours(sh, d, dt) ==
    IF ~is_open(sh, d, dt) THEN None ELSE get_hours(sh, d, dt)

\* generate_schedule is called: lines 29-35
GenerateSchedule ==
    /\ pc = "ready"
    /\ calls < 2
    /\ pc' = "dates"
    /\ schedule' = <<>>
    /\ employee_hours' = [n \in {employees[i].name : i \in 1..Len(employees)} |-> 0]
    /\ date_idx' = 1
    /\ UNCHANGED <<models_vars, inputs, today, calls, returned, day_locals>>

\* lines 42-47: the store is closed on the date
SkipClosedDate ==
    /\ pc = "dates"
    /\ date_idx <= DaysInMonth
    /\ day_hours(store_hours, day, date) = None
    /\ date_idx' = date_idx + 1
    /\ UNCHANGED <<models_vars, inputs, today, pc, calls, returned, schedule, employee_hours, day_locals>>

\* lines 105-106: nobody can work the weekday below the cap; the day returns no shift
NoEmployeeForDay ==
    /\ pc = "dates"
    /\ date_idx <= DaysInMonth
    /\ day_hours(store_hours, day, date) # None
    /\ available_filter(employees, day, employee_hours) = <<>>
    /\ date_idx' = date_idx + 1
    /\ UNCHANGED <<models_vars, inputs, today, pc, calls, returned, schedule, employee_hours, day_locals>>

\* lines 81-136: the day's window and the loop's initial state; the sort of line
\* 111 raises ZeroDivisionError when the list holds an employee with a cap of 0
StartDay ==
    /\ pc = "dates"
    /\ date_idx <= DaysInMonth
    /\ day_hours(store_hours, day, date) # None
    /\ available_filter(employees, day, employee_hours) # <<>>
    /\ LET hours == day_hours(store_hours, day, date)
           open_time == hours[1]
           close_time == hours[2]
       IN  /\ open_dt' = open_time
           /\ close_dt' = IF close_time < open_time THEN close_time + DayMinutes
                                                    ELSE close_time
           /\ current_dt' = open_time
    /\ shifts' = <<>>
    /\ iteration' = 0
    /\ last_current_dt' = NoShift
    /\ pc' = IF utilization_defined(available_filter(employees, day, employee_hours))
             THEN "loop"
             ELSE "raised"
    /\ employees' = roster_after_sort(employees, day, date, employee_hours)
    /\ UNCHANGED <<models_vars, store_hours, first_weekday, today, calls, returned,
                   schedule, employee_hours, date_idx>>

\* line 138: the loop condition fails
LoopEnds ==
    /\ pc = "loop"
    /\ ~loop_running
    /\ pc' = "fallback"
    /\ UNCHANGED <<models_vars, inputs, today, calls, returned, schedule, employee_hours, date_idx, day_locals>>

\* lines 148-150: every employee has reached the cap
BreakNoEmployee ==
    /\ pc = "loop"
    /\ loop_running
    /\ loop_available = <<>>
    /\ iteration' = iteration + 1
    /\ pc' = "fallback"
    /\ UNCHANGED <<models_vars, inputs, today, calls, returned, schedule, employee_hours, date_idx,
                   shifts, open_dt, close_dt, current_dt, last_current_dt>>

\* lines 167-169: too little time is left
BreakTooShort ==
    /\ pc = "loop"
    /\ loop_running
    /\ loop_available # <<>>
    /\ too_short(loop_available)
    /\ iteration' = iteration + 1
    /\ pc' = "fallback"
    /\ UNCHANGED <<models_vars, inputs, today, calls, returned, schedule, employee_hours, date_idx,
                   shifts, open_dt, close_dt, current_dt, last_current_dt>>

\* lines 175-223: an employee and a duration are found at the cursor
PlaceShift ==
    /\ iteration_tries
    /\ found_shift # None
    /\ \E t2 \in today..1 :
         LET emp == found_shift[1]
             end_dt == found_shift[2]
             shift == new_shift(emp, day, date, current_dt, end_dt, TimeOf(current_dt),
                                "main", employee_hours, today, t2)
         IN  /\ shifts' = Append(shifts, shift)
             /\ employee_hours' = add_hours(employee_hours, shift, today, t2)
             /\ current_dt' = cursor_after_shift(current_dt, end_dt)
             /\ today' = t2
    /\ iteration' = iteration + 1
    /\ UNCHANGED <<models_vars, inputs, pc, calls, returned, schedule, date_idx, open_dt, close_dt,
                   last_current_dt>>

\* lines 229-248: nothing found, the day has no shift yet, a minimal shift fits
PlaceMinimalShift ==
    /\ iteration_tries
    /\ found_shift = None
    /\ found_minimal_shift # None
    /\ \E t2 \in today..1 :
         LET emp == found_minimal_shift[1]
             end_dt == found_minimal_shift[2]
             shift == new_shift(emp, day, date, current_dt, end_dt, TimeOf(current_dt),
                                "relaxed", employee_hours, today, t2)
         IN  /\ shifts' = Append(shifts, shift)
             /\ employee_hours' = add_hours(employee_hours, shift, today, t2)
             /\ current_dt' = cursor_after_shift(current_dt, end_dt)
             /\ today' = t2
    /\ iteration' = iteration + 1
    /\ UNCHANGED <<models_vars, inputs, pc, calls, returned, schedule, date_idx, open_dt, close_dt,
                   last_current_dt>>

\* lines 250-256: the cursor moves on by 15 minutes
AdvanceCursor ==
    /\ iteration_tries
    /\ found_shift = None
    /\ found_minimal_shift = None
    /\ LET next_dt == current_dt + QuarterHour
       IN  /\ ~(last_current_dt = current_dt \/ next_dt >= close_dt)
           /\ last_current_dt' = current_dt
           /\ current_dt' = next_dt
    /\ iteration' = iteration + 1
    /\ UNCHANGED <<models_vars, inputs, today, pc, calls, returned, schedule, employee_hours, date_idx,
                   shifts, open_dt, close_dt>>

\* lines 252-253: the cursor cannot move on
BreakNoProgress ==
    /\ iteration_tries
    /\ found_shift = None
    /\ found_minimal_shift = None
    /\ (last_current_dt = current_dt \/ current_dt + QuarterHour >= close_dt)
    /\ iteration' = iteration + 1
    /\ pc' = "fallback"
    /\ UNCHANGED <<models_vars, inputs, today, calls, returned, schedule, employee_hours, date_idx,
                   shifts, open_dt, close_dt, current_dt, last_current_dt>>

fallback_employees == available_fallback(employees, day, date)
fallback_fires ==
    /\ Len(shifts) = 0
    /\ fallback_employees # <<>>
    /\ total_hours > 0
    /\ fallback_duration(fallback_employees[1], employee_hours, total_hours) > 0

\* lines 259-290 and 56-57: the fallback shift, then the day's shifts join the schedule
FallbackShift ==
    /\ pc = "fallback"
    /\ fallback_fires
    /\ \E t2 \in today..1 :
         LET emp == fallback_employees[1]
             end_dt == fallback_end(emp, employee_hours, open_dt, close_dt)
             shift == new_shift(emp, day, date, open_dt, end_dt, TimeOf(open_dt),
                                "fallback", employee_hours, today, t2)
         IN  /\ schedule' = schedule \o Append(shifts, shift)
             /\ employee_hours' = add_hours(employee_hours, shift, today, t2)
             /\ today' = t2
    /\ shifts' = <<>>
    /\ open_dt' = 0 /\ close_dt' = 0 /\ current_dt' = 0
    /\ iteration' = 0
    /\ last_current_dt' = NoShift
    /\ date_idx' = date_idx + 1
    /\ pc' = "dates"
    /\ UNCHANGED <<models_vars, inputs, calls, returned>>

\* lines 259, 290 and 56-57: no fallback; the day's shifts join the schedule
ReturnDay ==
    /\ pc = "fallback"
    /\ ~fallback_fires
    /\ schedule' = schedule \o shifts
    /\ shifts' = <<>>
    /\ open_dt' = 0 /\ close_dt' = 0 /\ current_dt' = 0
    /\ iteration' = 0
    /\ last_current_dt' = NoShift
    /\ date_idx' = date_idx + 1
    /\ pc' = "dates"
    /\ UNCHANGED <<models_vars, inputs, today, calls, returned, employee_hours>>

\* line 59
ReturnSchedule ==
    /\ pc = "dates"
    /\ date_idx > DaysInMonth
    /\ returned' = Append(returned, schedule)
    /\ calls' = calls + 1
    /\ pc' = "ready"
    /\ UNCHANGED <<models_vars, inputs, today, schedule, employee_hours, date_idx, day_locals>>

Next ==
    \/ GenerateSchedule
    \/ SkipClosedDate
    \/ NoEmployeeForDay
    \/ StartDay
    \/ LoopEnds
    \/ BreakNoEmployee
    \/ BreakTooShort
    \/ PlaceShift
    \/ PlaceMinimalShift
    \/ AdvanceCursor
    \/ BreakNoProgress
    \/ FallbackShift
    \/ ReturnDay
    \/ ReturnSchedule

Spec == Init /\ [][Next]_vars

(***************************************************************************)
(* StoreHours on its own: a client edits the operating hours and reads     *)
(* them back                                                               *)
(***************************************************************************)
scheduler_vars == <<first_weekday, pc, calls, returned, schedule, employee_hours,
                    date_idx, shifts, open_dt, close_dt, current_dt, iteration,
                    last_current_dt, today>>

\* no scheduler is running
SchedulerIdle ==
    /\ first_weekday = 0
    /\ pc = "models"
    /\ calls = 0
    /\ returned = <<>>
    /\ schedule = <<>>
    /\ employee_hours = EmptyDict
    /\ date_idx = 1
    /\ shifts = <<>>
    /\ open_dt = 0 /\ close_dt = 0 /\ current_dt = 0
    /\ iteration = 0
    /\ last_current_dt = NoShift
    /\ today = 0

StoreWindows == {<<HM(9, 0), HM(15, 0)>>, Night}

\* StoreHours(): both dicts empty
StoreInit ==
    /\ store_hours = [hours |-> EmptyDict, date_overrides |-> EmptyDict]
    /\ ledger = EmptyLedger
    /\ call = NoCall
    /\ employees = <<>>
    /\ SchedulerIdle

SetHours ==
    \E d \in QueryDays, w \in StoreWindows :
        /\ store_hours' = set_hours(store_hours, d, w[1], w[2])
        /\ ledger' = [ledger EXCEPT !.weekly[d] = w]
        /\ call' = [method |-> "set_hours", args |-> <<d, w[1], w[2]>>, result |-> None]
        /\ UNCHANGED <<employees, scheduler_vars>>

SetHoursForDate ==
    \E dt \in QueryDates \ {None}, w \in StoreWindows :
        /\ store_hours' = set_hours_for_date(store_hours, dt, w[1], w[2])
        /\ ledger' = [ledger EXCEPT !.overridden = @ \cup {dt[1]}, !.override[dt[1]] = w]
        /\ call' = [method |-> "set_hours_for_date", args |-> <<dt, w[1], w[2]>>,
                    result |-> None]
        /\ UNCHANGED <<employees, scheduler_vars>>

SetClosedForDate ==
    \E dt \in QueryDates \ {None} :
        /\ store_hours' = set_closed_for_date(store_hours, dt)
        /\ ledger' = [ledger EXCEPT !.overridden = @ \cup {dt[1]}, !.override[dt[1]] = None]
        /\ call' = [method |-> "set_closed_for_date", args |-> <<dt>>, result |-> None]
        /\ UNCHANGED <<employees, scheduler_vars>>

RemoveDateOverride ==
    \E dt \in QueryDates \ {None} :
        /\ store_hours' = remove_date_override(store_hours, dt)
        /\ ledger' = [ledger EXCEPT !.overridden = @ \ {dt[1]}, !.override[dt[1]] = None]
        /\ call' = [method |-> "remove_date_override", args |-> <<dt>>, result |-> None]
        /\ UNCHANGED <<employees, scheduler_vars>>

GetHours ==
    \E d \in QueryDays, dt \in QueryDates :
        /\ call' = [method |-> "get_hours", args |-> <<d, dt>>,
                    result |-> get_hours(store_hours, d, dt)]
        /\ UNCHANGED <<store_hours, ledger, employees, scheduler_vars>>

IsOpen ==
    \E d \in QueryDays, dt \in QueryDates :
        /\ call' = [method |-> "is_open", args |-> <<d, dt>>,
                    result |-> is_open(store_hours, d, dt)]
        /\ UNCHANGED <<store_hours, ledger, employees, scheduler_vars>>

StoreNext ==
    \/ SetHours
    \/ SetHoursForDate
    \/ SetClosedForDate
    \/ RemoveDateOverride
    \/ GetHours
    \/ IsOpen

StoreSpec == StoreInit /\ [][StoreNext]_vars

(***************************************************************************)
(* Employee on its own: a client asks one employee record                  *)
(***************************************************************************)
\* every combination of a wholly unavailable weekday, an unavailable window and
\* an available-only window for the weekday of the rules
QueryWeekdayRules ==
    { [unavailable_days |-> ud, unavailable_times_by_day |-> ut,
       available_times_by_day |-> at] :
        ud \in {{}, {RuleDay}},
        ut \in {EmptyDict, RuleDay :> Midday},
        at \in {EmptyDict, RuleDay :> Morning} }

\* the same for the date of the rules
QueryDateRules ==
    { [unavailable_dates |-> ud, unavailable_times_by_date |-> ut,
       available_times_by_date |-> at] :
        ud \in {{}, {RuleDate}},
        ut \in {EmptyDict, RuleDate :> Midday},
        at \in {EmptyDict, RuleDate :> Morning} }

\* every combination of a preferred weekday, a preferred date and a preferred
\* window for the date
QueryPreferences ==
    { [Employee("A") EXCEPT !.preferred_days = pd, !.preferred_dates = pdt,
                            !.preferred_times_by_date = pt] :
        pd \in {{}, {RuleDay}},
        pdt \in {{}, {RuleDate}},
        pt \in {EmptyDict, RuleDate :> Morning} }

QueryEmployees ==
    { with_rules(Employee("A"), w, r, H(160)) : w \in QueryWeekdayRules, r \in QueryDateRules }
    \cup QueryPreferences

\* candidate windows: before, across, inside and after the unavailable window,
\* and one across midnight
CandidateWindows ==
    { <<HM(8, 0), HM(12, 0)>>, <<HM(9, 0), HM(13, 0)>>, <<HM(12, 0), HM(14, 0)>>,
      <<HM(14, 0), HM(18, 0)>>, Night }

EmployeeInit ==
    /\ employees \in { <<e>> : e \in QueryEmployees }
    /\ store_hours = [hours |-> EmptyDict, date_overrides |-> EmptyDict]
    /\ ledger = EmptyLedger
    /\ call = NoCall
    /\ SchedulerIdle

IsAvailableAtTime ==
    \E d \in QueryDays, w \in CandidateWindows, dt \in QueryDates :
        /\ call' = [method |-> "is_available_at_time", args |-> <<d, w[1], w[2], dt>>,
                    result |-> is_available_at_time(employees[1], d, w[1], w[2], dt)]
        /\ UNCHANGED <<store_hours, ledger, employees, scheduler_vars>>

PrefersDay ==
    \E d \in QueryDays, dt \in QueryDates :
        /\ call' = [method |-> "prefers_day", args |-> <<d, dt>>,
                    result |-> prefers_day(employees[1], d, dt)]
        /\ UNCHANGED <<store_hours, ledger, employees, scheduler_vars>>

EmployeeNext ==
    \/ IsAvailableAtTime
    \/ PrefersDay

EmployeeSpec == EmployeeInit /\ [][EmployeeNext]_vars

(***************************************************************************)
(* Properties                                                              *)
(***************************************************************************)
\* every shift placed so far in the call in progress, or by the last call returned
AllShifts == schedule \o shifts

Dates == 1..DaysInMonth
Returns == 1..Len(returned)
Roster == 1..Len(employees)

EmployeeNamed(n) == employees[CHOOSE i \in Roster : employees[i].name = n]

\* the Operating-Hours Resolver's answer for date number d, read off the record:
\* the date's override when there is one, else the weekday's hours, else closed
Resolved(d) ==
    IF DateAt(d) \in DOMAIN store_hours.date_overrides
    THEN store_hours.date_overrides[DateAt(d)]
    ELSE IF WeekdayAt(first_weekday, d) \in DOMAIN store_hours.hours
    THEN store_hours.hours[WeekdayAt(first_weekday, d)]
    ELSE None

OpenOn(d) == Resolved(d) # None
WindowOpen(d) == Resolved(d)[1]
WindowClose(d) ==
    IF Resolved(d)[2] < Resolved(d)[1] THEN Resolved(d)[2] + DayMinutes ELSE Resolved(d)[2]
WindowLength(d) == WindowClose(d) - WindowOpen(d)
CrossesMidnight(d) == Resolved(d)[2] < Resolved(d)[1]

\* a shift's start and end as minutes from its date's midnight, from its times of day
ShiftStart(s) ==
    IF s.start_time >= WindowOpen(s.date[1]) THEN s.start_time ELSE s.start_time + DayMinutes
ShiftEnd(s) == ShiftStart(s) + Duration(s)

ShiftsOn(ss, d) == SelectSeq(ss, LAMBDA s : s.date = DateAt(d))

\* the five fields of a Shift
ShiftFields(s) == <<s.employee_name, s.day, s.start_time, s.end_time, s.date>>

NoRules(e) ==
    /\ e.unavailable_days = {} /\ DOMAIN e.unavailable_times_by_day = {}
    /\ DOMAIN e.available_times_by_day = {}
    /\ e.unavailable_dates = {} /\ DOMAIN e.unavailable_times_by_date = {}
    /\ DOMAIN e.available_times_by_date = {}

\* a cap that the hours of one month cannot reach
AmpleCap(e) == e.max_hours_per_month >= (DaysInMonth + 2) * DayMinutes

DefaultLimits(e) == e.min_hours_per_shift = H(4) /\ e.max_hours_per_shift = H(8)

WhollyUnavailable(e, d) ==
    \/ WeekdayAt(first_weekday, d) \in e.unavailable_days
    \/ (DateAt(d) \in e.unavailable_dates /\ DateAt(d) \notin DOMAIN e.unavailable_times_by_date)

\* C1: in every returned schedule, for every employee, the durations of the
\* employee's shifts that the fallback did not place add up to at most the
\* employee's max_hours_per_month.
C1_NonFallbackHoursWithinCap ==
    \A k \in Returns : \A i \in Roster :
        SumDurations(SelectSeq(returned[k],
                               LAMBDA s : s.employee_name = employees[i].name
                                          /\ s.h_via # "fallback"))
            <= employees[i].max_hours_per_month

\* C2: in every returned schedule, every date that is open with a window of
\* positive length and has a roster employee who is not wholly unavailable for
\* its weekday and date has at least one shift, also when those employees have
\* reached the cap.
C2_OpenDateStaffed ==
    \A k \in Returns : \A d \in Dates :
        (/\ OpenOn(d)
         /\ WindowLength(d) > 0
         /\ \E i \in Roster : ~WhollyUnavailable(employees[i], d))
        => ShiftsOn(returned[k], d) # <<>>

\* C3: in every returned schedule, a date whose window is longer than 6 hours,
\* with two roster employees without rules, with default shift limits and a cap
\* out of reach, has n = max(2, ceil(total / 8h)) shifts of total / n each that
\* cover the window from open to close without gap or overlap.
C3_LongDaySplit ==
    \A k \in Returns : \A d \in Dates :
        (/\ OpenOn(d)
         /\ WindowLength(d) > H(6)
         /\ Len(employees) >= 2
         /\ \A i \in Roster : /\ NoRules(employees[i])
                              /\ AmpleCap(employees[i])
                              /\ DefaultLimits(employees[i]))
        => LET ss == ShiftsOn(returned[k], d)
               total == WindowLength(d)
               n == Max2(2, (total + H(8) - 1) \div H(8))
           IN  /\ Len(ss) = n
               /\ \A j \in 1..Len(ss) : Duration(ss[j]) * n = total
               /\ ShiftStart(ss[1]) = WindowOpen(d)
               /\ \A j \in 1..(Len(ss) - 1) : ShiftEnd(ss[j]) = ShiftStart(ss[j + 1])
               /\ ShiftEnd(ss[Len(ss)]) = WindowClose(d)

\* C4 as stated: every shift, the fallback's included, passes is_available_at_time
\* for its employee, weekday, start, end and date.
C4_EveryShiftAvailable ==
    \A j \in 1..Len(AllShifts) :
        LET s == AllShifts[j]
        IN  is_available_at_time(EmployeeNamed(s.employee_name), s.day,
                                 s.start_time, s.end_time, s.date)

\* C4 as amended: every shift placed by the main loop or the minimal-duration
\* pass passes is_available_at_time for its employee, weekday, start, end and date.
C4_PlacedShiftAvailable ==
    \A j \in 1..Len(AllShifts) :
        LET s == AllShifts[j]
        IN  s.h_via # "fallback"
            => is_available_at_time(EmployeeNamed(s.employee_name), s.day,
                                    s.start_time, s.end_time, s.date)

\* a shift of the minimal-duration pass for an employee with an unavailable time
\* window on the shift's weekday
C4_Witness ==
    \E j \in 1..Len(AllShifts) :
        LET s == AllShifts[j]
        IN  /\ s.h_via = "relaxed"
            /\ s.day \in DOMAIN EmployeeNamed(s.employee_name).unavailable_times_by_day

\* C5: every shift lies inside its date's window: as minutes from the date's
\* midnight, with the close moved to the next day when close < open, the start is
\* at or after the open and the end at or before the close; the shift's times of
\* day are those instants and its duration is their difference.
C5_ShiftInsideWindow ==
    \A j \in 1..Len(AllShifts) :
        LET s == AllShifts[j]
            d == s.date[1]
        IN  /\ OpenOn(d)
            /\ WindowOpen(d) <= s.h_start_dt
            /\ s.h_start_dt <= s.h_end_dt
            /\ s.h_end_dt <= WindowClose(d)
            /\ s.start_time = TimeOf(s.h_start_dt)
            /\ s.end_time = TimeOf(s.h_end_dt)
            /\ ShiftStart(s) = s.h_start_dt
            /\ ShiftEnd(s) = s.h_end_dt

\* shifts of all three paths in one schedule
C5_Witness ==
    \A via \in {"main", "relaxed", "fallback"} :
        \E j \in 1..Len(AllShifts) : AllShifts[j].h_via = via

\* C6: no two distinct shifts of the same employee on the same date overlap,
\* as half-open intervals.
C6_NoOverlapSameEmployee ==
    \A i, j \in 1..Len(AllShifts) :
        LET a == AllShifts[i]
            b == AllShifts[j]
        IN  (i # j /\ a.employee_name = b.employee_name /\ a.date = b.date)
            => ~(ShiftStart(a) < ShiftEnd(b) /\ ShiftEnd(a) > ShiftStart(b))

\* an employee with two shifts on one date
C6_Witness ==
    \E i, j \in 1..Len(AllShifts) :
        /\ i < j
        /\ AllShifts[i].employee_name = AllShifts[j].employee_name
        /\ AllShifts[i].date = AllShifts[j].date

\* C7: two calls of generate_schedule on the same ShiftScheduler return the same
\* sequence of shifts (employee, weekday, start, end, date).
C7_SecondCallSameSchedule ==
    calls = 2 =>
        /\ Len(returned[1]) = Len(returned[2])
        /\ \A j \in 1..Len(returned[1]) :
               ShiftFields(returned[1][j]) = ShiftFields(returned[2][j])

\* C8: no shift has a date for which the resolver answers closed.
C8_NoShiftOnClosedDate ==
    \A d \in Dates :
        ~OpenOn(d) => \A j \in 1..Len(AllShifts) : AllShifts[j].date # DateAt(d)

\* a returned schedule with shifts, none on the date that an override closes while
\* its weekday has hours
C8_Witness ==
    /\ calls >= 1
    /\ returned[1] # <<>>
    /\ \E d \in Dates : /\ ~OpenOn(d)
                        /\ WeekdayAt(first_weekday, d) \in DOMAIN store_hours.hours

\* the case of C9: one employee without rules, a cap out of reach
C9_Case ==
    /\ Len(employees) = 1
    /\ NoRules(employees[1])
    /\ AmpleCap(employees[1])

C9_OneShiftPerDate ==
    \A k \in Returns :
        /\ \A d \in Dates :
              LET ss == ShiftsOn(returned[k], d)
              IN  IF OpenOn(d)
                  THEN /\ Len(ss) = 1
                       /\ ss[1].employee_name = employees[1].name
                       /\ ss[1].start_time = Resolved(d)[1]
                       /\ ss[1].end_time = Resolved(d)[2]
                       /\ Duration(ss[1]) = WindowLength(d)
                  ELSE ss = <<>>
        /\ Len(returned[k]) = Cardinality({d \in Dates : OpenOn(d)})

\* C9 as stated: with one employee without rules and a cap out of reach, and
\* every open window at most 6 hours, every open date has exactly one shift, of
\* that employee, spanning the window.
C9_SingleEmployeeShortDays ==
    (C9_Case /\ \A d \in Dates : OpenOn(d) => WindowLength(d) <= H(6))
    => C9_OneShiftPerDate

\* C9 as amended: the same when every open window is longer than zero and at most
\* 6 hours.
C9_SingleEmployeePositiveShortDays ==
    (C9_Case /\ \A d \in Dates : OpenOn(d) => (WindowLength(d) > 0 /\ WindowLength(d) <= H(6)))
    => C9_OneShiftPerDate

\* a returned schedule in the case of C9 with every date open
C9_Witness ==
    /\ calls >= 1
    /\ C9_Case
    /\ \A d \in Dates : OpenOn(d) /\ WindowLength(d) > 0 /\ WindowLength(d) <= H(6)
    /\ Len(returned[1]) = DaysInMonth

\* the unavailable window of the employee e for the weekday wd, end moved to the
\* next day when it is before the start
UnavailableStart(e, wd) == e.unavailable_times_by_day[wd][1]
UnavailableEnd(e, wd) ==
    IF e.unavailable_times_by_day[wd][2] < e.unavailable_times_by_day[wd][1]
    THEN e.unavailable_times_by_day[wd][2] + DayMinutes
    ELSE e.unavailable_times_by_day[wd][2]

OverlapsUnavailable(s) ==
    LET e == EmployeeNamed(s.employee_name)
    IN  /\ s.day \in DOMAIN e.unavailable_times_by_day
        /\ ShiftStart(s) < UnavailableEnd(e, s.day)
        /\ ShiftEnd(s) > UnavailableStart(e, s.day)

\* the date rules that is_available_at_time applies to the shift's date
HasDateRule(s) ==
    LET e == EmployeeNamed(s.employee_name)
    IN  s.date \in e.unavailable_dates \/ s.date \in DOMAIN e.available_times_by_date

\* C10 as stated: on a date whose window does not cross midnight, no shift of the
\* main loop or the minimal-duration pass overlaps the employee's unavailable
\* window for the weekday.
C10_NoShiftInUnavailableWindow ==
    \A j \in 1..Len(AllShifts) :
        LET s == AllShifts[j]
        IN  (s.h_via # "fallback" /\ ~CrossesMidnight(s.date[1]))
            => ~OverlapsUnavailable(s)

\* C10 as amended: the same for an employee who has neither an unavailable mark
\* nor an available-only window for the date itself.
C10_NoShiftInUnavailableWindowNoDateRule ==
    \A j \in 1..Len(AllShifts) :
        LET s == AllShifts[j]
        IN  (s.h_via # "fallback" /\ ~CrossesMidnight(s.date[1]) /\ ~HasDateRule(s))
            => ~OverlapsUnavailable(s)

\* a shift that ends where the employee's unavailable window for the weekday begins
C10_Witness ==
    \E j \in 1..Len(AllShifts) :
        LET s == AllShifts[j]
            e == EmployeeNamed(s.employee_name)
        IN  /\ s.h_via # "fallback"
            /\ ~CrossesMidnight(s.date[1])
            /\ ~HasDateRule(s)
            /\ s.day \in DOMAIN e.unavailable_times_by_day
            /\ ShiftEnd(s) = UnavailableStart(e, s.day)

\* what the clients' calls so far entitle them to read for a weekday and a date:
\* the calendar day's override while one is set, else the weekday's hours
ExpectedHours(wd, dt) ==
    IF dt # None /\ dt[1] \in ledger.overridden
    THEN ledger.override[dt[1]]
    ELSE ledger.weekly[wd]

\* C11: after any sequence of set_hours, set_hours_for_date, set_closed_for_date
\* and remove_date_override, get_hours of a weekday and a date (any time of day,
\* or no date) is the override last set for the calendar day and not removed
\* since (closed for the closed marker), else the hours last set for the weekday,
\* else closed.
C11_GetHoursFollowsOverrides ==
    /\ \A wd \in 0..6 : \A dt \in QueryDates :
           get_hours(store_hours, wd, dt) = ExpectedHours(wd, dt)
    /\ call.method = "get_hours"
          => call.result = ExpectedHours(call.args[1], call.args[2])

\* get_hours answered closed for a weekday that has hours, asked with a time of
\* day on a calendar day closed by an override
C11_Witness ==
    /\ call.method = "get_hours"
    /\ call.args[2] # None
    /\ call.args[2][2] # 0
    /\ call.args[2][1] \in ledger.overridden
    /\ ledger.weekly[call.args[1]] # None
    /\ call.result = None

\* C12: in every state of a StoreHours that its setters reach, for every weekday
\* and every date or no date, is_open is true exactly when get_hours gives a
\* window.
C12_IsOpenIffHours ==
    /\ \A wd \in 0..6 : \A dt \in QueryDates :
           is_open(store_hours, wd, dt) <=> (get_hours(store_hours, wd, dt) # None)
    /\ call.method = "is_open"
          => (call.result <=> (get_hours(store_hours, call.args[1], call.args[2]) # None))

\* is_open answered false for a weekday that has hours
C12_Witness ==
    /\ call.method = "is_open"
    /\ call.args[1] \in DOMAIN store_hours.hours
    /\ call.result = FALSE

\* the asked employee and the arguments of the last is_available_at_time or
\* prefers_day call
Asked == employees[1]
AskedDay == call.args[1]
AskedWindow == <<call.args[2], call.args[3]>>
AskedDate == call.args[Len(call.args)]
\* the calendar date of the asked date, as the employee's collections key it
AskedDateKey == <<AskedDate[1], 0>>

\* two windows overlap, one window contains another: each window's end is moved
\* to the next day when it is before its start, then half-open intervals compare
WrapEnd(w) == IF w[2] < w[1] THEN w[2] + DayMinutes ELSE w[2]
Overlaps(a, b) == a[1] < WrapEnd(b) /\ WrapEnd(a) > b[1]
Contains(outer, inner) == inner[1] >= outer[1] /\ WrapEnd(inner) <= WrapEnd(outer)

\* C13: asked with a date for which the employee has an unavailable time window
\* and no whole-day unavailable mark, is_available_at_time is true iff the
\* candidate window does not overlap that window, whatever the weekday rules.
C13_DateWindowDecides ==
    (/\ call.method = "is_available_at_time"
     /\ AskedDate # None
     /\ AskedDateKey \in DOMAIN Asked.unavailable_times_by_date
     /\ AskedDateKey \notin Asked.unavailable_dates)
    => (call.result <=> ~Overlaps(AskedWindow, Asked.unavailable_times_by_date[AskedDateKey]))

NoDateRuleAsked ==
    \/ AskedDate = None
    \/ /\ AskedDateKey \notin Asked.unavailable_dates
       /\ AskedDateKey \notin DOMAIN Asked.unavailable_times_by_date
       /\ AskedDateKey \notin DOMAIN Asked.available_times_by_date

\* C15 as stated: with no date rule and an unavailable window for the weekday,
\* is_available_at_time is true iff the candidate window does not overlap the
\* unavailable window, also when the weekday has an available-only window.
C15_WeekdayWindowAlone ==
    (/\ call.method = "is_available_at_time"
     /\ NoDateRuleAsked
     /\ AskedDay \in DOMAIN Asked.unavailable_times_by_day)
    => (call.result <=> ~Overlaps(AskedWindow, Asked.unavailable_times_by_day[AskedDay]))

\* C15 as amended: with no date rule and an unavailable window for the weekday,
\* is_available_at_time is true iff the candidate window does not overlap the
\* unavailable window and, when the weekday has an available-only window too,
\* that window contains the candidate.
C15_WeekdayWindowThenAvailableOnly ==
    (/\ call.method = "is_available_at_time"
     /\ NoDateRuleAsked
     /\ AskedDay \in DOMAIN Asked.unavailable_times_by_day)
    => (call.result <=>
           /\ ~Overlaps(AskedWindow, Asked.unavailable_times_by_day[AskedDay])
           /\ AskedDay \in DOMAIN Asked.available_times_by_day
                 => Contains(Asked.available_times_by_day[AskedDay], AskedWindow))

\* a candidate clear of the weekday's unavailable window and outside the weekday's
\* available-only window is refused
C15_Witness ==
    /\ call.method = "is_available_at_time"
    /\ NoDateRuleAsked
    /\ AskedDay \in DOMAIN Asked.unavailable_times_by_day
    /\ AskedDay \in DOMAIN Asked.available_times_by_day
    /\ ~Overlaps(AskedWindow, Asked.unavailable_times_by_day[AskedDay])
    /\ ~Contains(Asked.available_times_by_day[AskedDay], AskedWindow)
    /\ call.result = FALSE

\* C16: with a single employee whose weekday is wholly unavailable and who has an
\* available-only window for a date of that weekday that covers the date's open
\* window, and a cap out of reach, every returned schedule has a shift for the
\* employee on that date.
C16_DateWindowMakesEligible ==
    \A k \in Returns : \A d \in Dates :
        (/\ Len(employees) = 1
         /\ AmpleCap(employees[1])
         /\ WeekdayAt(first_weekday, d) \in employees[1].unavailable_days
         /\ DateAt(d) \notin employees[1].unavailable_dates
         /\ DateAt(d) \in DOMAIN employees[1].available_times_by_date
         /\ OpenOn(d)
         /\ WindowLength(d) > 0
         /\ Contains(employees[1].available_times_by_date[DateAt(d)], Resolved(d)))
        => ShiftsOn(returned[k], d) # <<>>

\* C17: prefers_day is true iff the calendar date of the asked date is in
\* preferred_dates or a key of preferred_times_by_date, or the weekday is in
\* preferred_days; asked without a date, iff the weekday is in preferred_days.
C17_PrefersDay ==
    call.method = "prefers_day"
    => (call.result <=>
           \/ /\ AskedDate # None
              /\ \/ AskedDateKey \in Asked.preferred_dates
                 \/ AskedDateKey \in DOMAIN Asked.preferred_times_by_date
           \/ AskedDay \in Asked.preferred_days)

\* preferred by a preferred window of the date, asked with a time of day, on a
\* weekday that is not preferred
C17_Witness ==
    /\ call.method = "prefers_day"
    /\ AskedDate # None
    /\ AskedDate[2] # 0
    /\ AskedDateKey \in DOMAIN Asked.preferred_times_by_date
    /\ AskedDateKey \notin Asked.preferred_dates
    /\ AskedDay \notin Asked.preferred_days
    /\ call.result = TRUE

\* C18: no step of generate_schedule changes an Employee record, the order of the
\* roster, or the weekday hours and date overrides of the StoreHours.
C18_InputsUnchanged ==
    [][employees' = employees /\ store_hours' = store_hours]_vars

\* a returned schedule with a shift of the second employee of the roster, who
\* prefers the weekday and so sorts before the first, who has no rules
C18_Witness ==
    /\ calls >= 1
    /\ Len(employees) = 2
    /\ NoRules(employees[1])
    /\ employees[2].preferred_days # {}
    /\ \E j \in 1..Len(returned[1]) : returned[1][j].employee_name = employees[2].name

\* the position of the employee named n in the roster
RosterIndex(n) == CHOOSE i \in Roster : employees[i].name = n

\* C19: the employee of every fallback shift is not wholly unavailable for the
\* shift's weekday and date (no wholly unavailable weekday, no whole-day
\* unavailable mark for the date), and every employee before them in the roster is.
C19_FallbackEmployeeNotMarked ==
    \A j \in 1..Len(AllShifts) :
        LET s == AllShifts[j]
            idx == RosterIndex(s.employee_name)
        IN  s.h_via = "fallback"
            => /\ ~WhollyUnavailable(employees[idx], s.date[1])
               /\ \A i \in 1..(idx - 1) : WhollyUnavailable(employees[i], s.date[1])

\* one iteration of the day loop that goes on to the next
LoopStep == pc = "loop" /\ pc' = "loop" /\ iteration' = iteration + 1
\* the iteration placed a shift and moved the cursor to its end
PlacedStep ==
    /\ Len(shifts') = Len(shifts) + 1
    /\ current_dt' = shifts'[Len(shifts')].h_end_dt
    /\ current_dt' >= current_dt
\* the iteration placed nothing and moved the cursor 15 minutes on, short of close
AdvancedStep ==
    /\ shifts' = shifts
    /\ current_dt' = current_dt + 15
    /\ current_dt' < close_dt
\* the iteration count stays under the ceiling: not more than one iteration for
\* every 15 minutes the cursor has covered, one zero-length shift and the last one
UnderCeiling ==
    /\ iteration' * 15 <= (current_dt' - open_dt') + 30
    /\ iteration' < max_iterations
\* however the day ends, the next date follows with the day's shifts kept, and
\* the schedule is returned only after the last date
DatesGoOn ==
    /\ pc = "fallback"
          => /\ pc' = "dates"
             /\ date_idx' = date_idx + 1
             /\ Len(schedule') >= Len(schedule) + Len(shifts)
             /\ SubSeq(schedule', 1, Len(schedule) + Len(shifts)) = schedule \o shifts
    /\ (pc = "dates" /\ pc' = "dates") => (date_idx' = date_idx + 1 /\ schedule' = schedule)
    /\ (pc = "dates" /\ pc' = "ready")
          => (date_idx > DaysInMonth /\ returned' = Append(returned, schedule))

\* C20 as stated: every iteration of the day loop that goes on either places a
\* shift and moves the cursor strictly forward to the shift's end, or places
\* nothing and moves the cursor forward by 15 minutes to a position before close;
\* the iteration count stays below 1000; and however the loop ends the following
\* dates are processed and the schedule returned keeps the shifts of every date.
C20_LoopProgress ==
    [][/\ LoopStep => ((PlacedStep /\ current_dt' > current_dt) \/ AdvancedStep)
       /\ UnderCeiling
       /\ DatesGoOn]_vars

\* C20 as amended: the same, where the cursor moves strictly forward with every
\* shift except a shift of length zero, which the minimal-duration pass places for
\* an employee whose min_hours_per_shift is 0.
C20_LoopProgressButZeroMinimum ==
    [][/\ LoopStep =>
            \/ PlacedStep /\ current_dt' > current_dt
            \/ /\ PlacedStep
               /\ shifts'[Len(shifts')].h_via = "relaxed"
               /\ EmployeeNamed(shifts'[Len(shifts')].employee_name).min_hours_per_shift = 0
            \/ AdvancedStep
       /\ UnderCeiling
       /\ DatesGoOn]_vars

\* a day on which the cursor has moved on by 15 minutes and a shift has been
\* placed after that
C20_Witness ==
    /\ pc = "loop"
    /\ last_current_dt # NoShift
    /\ shifts # <<>>
    /\ shifts[Len(shifts)].h_start_dt > last_current_dt

\* the call in progress has raised
Raised == pc = "raised"

\* the sorts of lines 111 and 153 are about to run on the eligible employees
SortPoint ==
    \/ /\ pc = "dates"
       /\ date_idx <= DaysInMonth
       /\ day_hours(store_hours, day, date) # None
    \/ pc = "loop" /\ loop_running

\* how far the calls have come: the calls returned, the date in progress, the
\* position within the date, the iteration of the day loop
Measure ==
    <<calls,
      IF pc = "ready" THEN 0 ELSE date_idx,
      CASE pc = "loop" -> 1 [] pc = "fallback" -> 2 [] pc = "raised" -> 3 [] OTHER -> 0,
      iteration>>

LexLess(a, b) ==
    \E k \in 1..Len(a) : a[k] < b[k] /\ \A j \in 1..(k - 1) : a[j] = b[j]

\* every step takes the call forward, within the month and the iteration ceiling
Completes ==
    /\ LexLess(Measure, Measure')
    /\ date_idx' <= DaysInMonth + 1
    /\ iteration' <= max_iterations

\* C21: no call of generate_schedule raises and every step takes it on towards
\* its return; wherever the eligible employees are sorted none of them has a cap
\* of 0, so the quotient accumulated hours / cap is never taken with a cap of 0;
\* and a roster whose employees all have a cap of 0 gets no shift on any date.
C21_NoRaise ==
    /\ [](/\ ~Raised
          /\ SortPoint
                => utilization_defined(available_filter(employees, day, employee_hours))
          /\ (\A i \in Roster : employees[i].max_hours_per_month = 0) => AllShifts = <<>>)
    /\ [][Completes]_vars

\* a returned schedule for a roster whose first employee has a cap of 0 and whose
\* second employee has shifts
C21_Witness ==
    /\ calls >= 1
    /\ Len(employees) = 2
    /\ employees[1].max_hours_per_month = 0
    /\ \E j \in 1..Len(returned[1]) : returned[1][j].employee_name = employees[2].name

\* the shift placed last on the date in progress
LastShift == shifts[Len(shifts)]

\* the position of the employee named n in the list avail, 0 when not in it
PositionIn(avail, n) ==
    IF \E i \in 1..Len(avail) : avail[i].name = n
    THEN CHOOSE i \in 1..Len(avail) : avail[i].name = n
    ELSE 0

\* the loop is about to try a placement at the cursor where the last shift ended,
\* and the employee of that shift is still eligible, with at least one other
NextAttemptAfterPlacement ==
    /\ iteration_tries
    /\ shifts # <<>>
    /\ current_dt = LastShift.h_end_dt
    /\ Len(loop_available) >= 2
    /\ PositionIn(loop_available, LastShift.employee_name) # 0

\* C22: when the loop tries a placement right after placing a shift, and the
\* employee of that shift is still eligible along with others, the first employee
\* tried is the one that follows the employee just placed in the sorted eligible
\* ordering, so not that employee again.
C22_RoundRobin ==
    NextAttemptAfterPlacement
    => employee_at(loop_available, 0).name
         = loop_available[(PositionIn(loop_available, LastShift.employee_name)
                           % Len(loop_available)) + 1].name

\* the employee e has used a smaller share of its cap than the employee f
SmallerShare(e, f) ==
    employee_hours[e.name] * f.max_hours_per_month
        < employee_hours[f.name] * e.max_hours_per_month

SamePreference(e, f) == prefers_day(e, day, date) = prefers_day(f, day, date)

\* C23: wherever the loop sorts, the sorted list holds exactly the eligible
\* employees; an employee who prefers the day stands before every one who does
\* not; of two employees with the same preference the one standing first has not
\* used a larger share of its cap, by the accumulated hours of that moment; and
\* two with the same preference and the same share stand in roster order.
C23_SortedByPreferenceAndShare ==
    SortPoint =>
        LET L == loop_available
        IN  /\ Len(L) = Len(available_filter(employees, day, employee_hours))
            /\ \A i \in 1..Len(L) :
                   /\ can_work(L[i], day)
                   /\ employee_hours[L[i].name] < L[i].max_hours_per_month
                   /\ L[i] = EmployeeNamed(L[i].name)
            /\ \A i, j \in 1..Len(L) :
                   i < j =>
                     /\ L[i].name # L[j].name
                     /\ prefers_day(L[j], day, date) => prefers_day(L[i], day, date)
                     /\ SamePreference(L[i], L[j]) => ~SmallerShare(L[j], L[i])
                     /\ (SamePreference(L[i], L[j]) /\ ~SmallerShare(L[i], L[j]))
                          => RosterIndex(L[i].name) < RosterIndex(L[j].name)

\* the loop sorts two employees of the same preference, and the one who comes
\* first has more accumulated hours but a smaller share of its cap used
C23_Witness ==
    /\ pc = "loop"
    /\ loop_running
    /\ Len(loop_available) = 2
    /\ SamePreference(loop_available[1], loop_available[2])
    /\ employee_hours[loop_available[1].name] > employee_hours[loop_available[2].name]
    /\ SmallerShare(loop_available[1], loop_available[2])

\* the employee e is in the eligible set of the date in progress
Eligible(e) ==
    /\ day \notin e.unavailable_days
    /\ employee_hours[e.name] < e.max_hours_per_month

\* the day loop appends a shift
LoopPlaces == pc = "loop" /\ Len(shifts') = Len(shifts) + 1

\* C24: every shift that the day loop appends (main loop or minimal-duration
\* pass) is for an employee who, just before, can work the weekday and has
\* accumulated hours strictly below max_hours_per_month; and when the loop finds
\* nobody eligible it ends with the day's shifts and hours as they are.
C24_PlacesOnlyEligible ==
    [][/\ LoopPlaces =>
            LET s == shifts'[Len(shifts')]
            IN  /\ s.h_via \in {"main", "relaxed"}
                /\ s.day = day /\ s.date = date
                /\ SubSeq(shifts', 1, Len(shifts)) = shifts
                /\ Eligible(EmployeeNamed(s.employee_name))
       /\ (pc = "loop" /\ loop_running /\ \A i \in Roster : ~Eligible(employees[i]))
            => /\ pc' = "fallback"
               /\ shifts' = shifts
               /\ employee_hours' = employee_hours]_vars

\* the loop has ended before close because the employee of its last shift
\* reached the cap with it and nobody else is eligible
C24_Witness ==
    /\ pc = "fallback"
    /\ shifts # <<>>
    /\ current_dt < close_dt
    /\ iteration < max_iterations
    /\ LastShift.h_via = "main"
    /\ \A i \in Roster : ~Eligible(employees[i])

\* the length of a shift between the instants it was placed at
Length(s) == s.h_end_dt - s.h_start_dt

\* the time from the start of the shift s to the close of its date
RemainingAt(s) == WindowClose(s.date[1]) - s.h_start_dt

\* the shift at position j of ss is the first of its date
FirstOfDate(ss, j) == \A i \in 1..(j - 1) : ss[i].date # ss[j].date

\* the leniency exception: first shift of the date, at least one hour, and at
\* least 80% of the remaining time or a remaining time below the minimum
Lenient(ss, j) ==
    LET s == ss[j]
        e == EmployeeNamed(s.employee_name)
    IN  /\ FirstOfDate(ss, j)
        /\ Length(s) >= H(1)
        /\ \/ Length(s) * 5 >= RemainingAt(s) * 4
           \/ RemainingAt(s) < e.min_hours_per_shift

\* C25: every shift that the fallback did not place is at least as long as its
\* employee's min_hours_per_shift, or is the first shift of its date, at least
\* one hour long, and either covers at least 80% of the time that remained until
\* close or was placed when that time was below the employee's minimum.
C25_MinimumShiftLength ==
    \A j \in 1..Len(AllShifts) :
        LET s == AllShifts[j]
        IN  s.h_via # "fallback"
            => \/ Length(s) >= EmployeeNamed(s.employee_name).min_hours_per_shift
               \/ Lenient(AllShifts, j)

\* a shift of the main loop shorter than its employee's minimum
C25_Witness ==
    \E j \in 1..Len(AllShifts) :
        /\ AllShifts[j].h_via = "main"
        /\ Length(AllShifts[j]) < EmployeeNamed(AllShifts[j].employee_name).min_hours_per_shift

\* the accumulated hours of the employee of ss[j] before that shift: what the
\* employee's previous shift of the call left, 0 when there is none
HoursBefore(ss, j) ==
    LET prev == {i \in 1..(j - 1) : ss[i].employee_name = ss[j].employee_name}
    IN  IF prev = {} THEN 0
        ELSE ss[CHOOSE i \in prev : \A k \in prev : k <= i].h_hours_after

\* the length that the last-resort fallback is to give: min(total_hours,
\* max(remaining monthly budget, 1 hour), 8 hours)
FallbackLength(total, budget) == Min2(total, Min2(Max2(budget, H(1)), H(8)))

\* C26: a fallback shift is the only shift of its date; it starts at the date's
\* opening time, its length is min(total_hours, max(cap - accumulated hours,
\* 1 hour), 8 hours), it ends at or before close, and the employee's accumulated
\* hours after it are the hours before plus that length.
C26_FallbackShift ==
    \A j \in 1..Len(AllShifts) :
        LET s == AllShifts[j]
            d == s.date[1]
            e == EmployeeNamed(s.employee_name)
            before == HoursBefore(AllShifts, j)
            length == FallbackLength(WindowLength(d), e.max_hours_per_month - before)
        IN  s.h_via = "fallback"
            => /\ Len(ShiftsOn(AllShifts, d)) = 1
               /\ s.h_start_dt = WindowOpen(d)
               /\ s.start_time = Resolved(d)[1]
               /\ Length(s) = length
               /\ s.h_end_dt <= WindowClose(d)
               /\ s.h_hours_after = before + length

\* the smallest min_hours_per_shift among the eligible employees is above m
MinimumOfEligibleAbove(m) ==
    /\ \E i \in Roster : Eligible(employees[i])
    /\ \A i \in Roster : Eligible(employees[i]) => employees[i].min_hours_per_shift > m

Remaining == close_dt - current_dt

\* C27 as stated: once the date has a shift, the day loop places no shift from a
\* cursor position where the time remaining until close is below the smallest
\* min_hours_per_shift of the eligible employees; and while the date has no shift,
\* the main loop places none from a position with less than 15 minutes remaining.
C27_NoPlacementWhenShort ==
    [][LoopPlaces =>
          /\ shifts # <<>> => ~MinimumOfEligibleAbove(Remaining)
          /\ (shifts = <<>> /\ shifts'[1].h_via = "main") => Remaining >= 15]_vars

\* the cursor positions at which lines 167-169 stop the day
StopsTheDay ==
    /\ pc = "loop"
    /\ loop_running
    /\ MinimumOfEligibleAbove(Remaining)
    /\ (shifts # <<>> \/ Remaining < 15)

\* C27 as amended: from a cursor position where the time remaining is below the
\* smallest min_hours_per_shift of the eligible employees, and the date has a
\* shift already or less than 15 minutes remain, the loop ends the day and places
\* nothing; no shift of the day loop is placed from such a position.
C27_NoPlacementWhenBelowMinimum ==
    [][/\ StopsTheDay => (pc' = "fallback" /\ shifts' = shifts)
       /\ LoopPlaces => ~StopsTheDay]_vars

\* the loop has ended a day that has a shift, before close, with the remaining
\* time below the minimum of an employee who is still eligible
C27_Witness ==
    /\ pc = "fallback"
    /\ shifts # <<>>
    /\ current_dt < close_dt
    /\ iteration < max_iterations
    /\ MinimumOfEligibleAbove(Remaining)

\* C28: the shifts of a call stand in ascending order of date; between dates and
\* after the return every employee's entry of the accumulated-hours map equals
\* get_total_hours_for_employee of the schedule built so far (so 0 before the
\* first date); and no shift leaves its employee's entry lower than it found it.
C28_HoursMapIsScheduleTotal ==
    /\ \A i, j \in 1..Len(AllShifts) :
           i < j => AllShifts[i].date[1] <= AllShifts[j].date[1]
    /\ pc \in {"dates", "ready"} =>
           \A i \in Roster :
               employee_hours[employees[i].name]
                   = get_total_hours_for_employee(schedule, employees[i].name)
    /\ \A j \in 1..Len(AllShifts) :
           AllShifts[j].h_hours_after >= HoursBefore(AllShifts, j)

\* C29: no shift is longer than its employee's max_hours_per_shift.
C29_ShiftWithinMaxPerShift ==
    \A j \in 1..Len(AllShifts) :
        Length(AllShifts[j]) <= EmployeeNamed(AllShifts[j].employee_name).max_hours_per_shift

\* the real instants of the employee's unavailable window for the shift's weekday
\* that the shift s covers: the window laid from the shift's date, with its end
\* on the next day when it is before its start
CoversUnavailableInstant(s) ==
    LET e == EmployeeNamed(s.employee_name)
    IN  /\ s.day \in DOMAIN e.unavailable_times_by_day
        /\ s.h_start_dt < UnavailableEnd(e, s.day)
        /\ s.h_end_dt > UnavailableStart(e, s.day)

\* C30: on a date whose window crosses midnight, no shift of the main loop or the
\* minimal-duration pass covers an instant of the employee's unavailable window
\* for the weekday, for an employee without date rules; the window may itself
\* cross midnight and the shift may start after midnight.
C30_NoShiftInUnavailableWindowAcrossMidnight ==
    \A j \in 1..Len(AllShifts) :
        LET s == AllShifts[j]
        IN  (s.h_via # "fallback" /\ CrossesMidnight(s.date[1]) /\ ~HasDateRule(s))
            => ~CoversUnavailableInstant(s)

====
